---- MODULE Spec2Model ----
(***************************************************************************)
(* State-machine model of two React components of the simulated-phone chat *)
(* client:                                                                 *)
(*   - ChatInterface (src/components/wechat/ChatInterface.tsx): sending a  *)
(*     message, building the completion payload, receiving the reply;      *)
(*   - SettingsApp (src/unnamed/part_001): backup export, backup import    *)
(*     (file selection, parsing, confirmation, cancellation) and saving.   *)
(* JavaScript values are modelled as tagged records, JavaScript objects as *)
(* functions from field names to values, arrays as sequences, and text as  *)
(* sequences of one-character strings where the code inspects characters.  *)
(***************************************************************************)
EXTENDS Integers, Sequences, FiniteSets, Bags, TLC

VARIABLES
    \* ---- ChatInterface and the state its parent passes down as props ----
    character,          \* parent state: the Character shown by the component
    isGlobalGenerating, \* parent state: the shared "a reply is pending" flag
    props,              \* the props captured by the closures of the last render
    tempCharConfig,     \* useState: the settings panel's working copy
    inputText,          \* useState: text of the input box
    showSettings,       \* useState: settings panel open
    requests,           \* generateChatCompletion calls awaiting their result
    \* ---- SettingsApp and the state its parent passes down as props ----
    settings,           \* parent state: AppSettings
    characters,         \* parent state: Character[]
    localSettings,      \* useState: form copy of the settings
    importMsg,          \* useState: status line of the backup section
    pendingImport,      \* useState: BackupData awaiting confirmation, or NULL
    reading,            \* bag of FileReader reads in flight (file and closure)
    backupData,         \* the last backup handed to the download, or NULL
    exportTimers        \* pending timeouts that clear the status line

chatVars == <<character, isGlobalGenerating, props, tempCharConfig, inputText,
              showSettings, requests>>
settingsVars == <<settings, characters, localSettings, importMsg, pendingImport,
                  reading, backupData, exportTimers>>
vars == <<chatVars, settingsVars>>

NULL == [t |-> "null"]
UNDEF == [t |-> "undefined"]

Max(a, b) == IF a >= b THEN a ELSE b
Min(a, b) == IF a <= b THEN a ELSE b

(***************************************************************************)
(* Bounds of the model.                                                    *)
(***************************************************************************)
MaxMessages == 4    \* a send is modelled only while the reply still fits
MaxHistory == 3     \* historyCount is drawn from 0..MaxHistory
MaxLive == 52       \* live message lists hold 0..MaxLive messages at an export
MaxExports == 2     \* exports whose status-line timeout may still be pending
MaxReading == 2     \* file reads that may be in flight together

(***************************************************************************)
(* Array.prototype.slice(start) with one argument: a negative start counts *)
(* from the end, and is clamped to the array.  The argument the code       *)
(* passes is -k, and -0 is 0.                                              *)
(***************************************************************************)
Slice(arr, start) ==
    LET n == Len(arr)
        from == IF start < 0 THEN Max(n + start, 0) ELSE Min(start, n)
    IN  SubSeq(arr, from + 1, n)

(***************************************************************************)
(* JavaScript truthiness of a tagged value (!!v, v ? a : b, a || b).       *)
(***************************************************************************)
Str(s) == [t |-> "str", s |-> s]
Num(n) == [t |-> "num", n |-> n]
Bool(b) == [t |-> "bool", b |-> b]
Arr(a) == [t |-> "arr", a |-> a]
Obj(o) == [t |-> "obj", o |-> o]

Truthy(v) ==
    CASE v.t = "undefined" -> FALSE
      [] v.t = "null" -> FALSE
      [] v.t = "str" -> v.s # ""
      [] v.t = "num" -> v.n # 0
      [] v.t = "bool" -> v.b
      [] OTHER -> TRUE

(***************************************************************************)
(* String.prototype.trim on a text (a sequence of characters).             *)
(***************************************************************************)
RECURSIVE TrimStart(_)
TrimStart(s) == IF s # <<>> /\ Head(s) = " " THEN TrimStart(Tail(s)) ELSE s

RECURSIVE TrimEnd(_)
TrimEnd(s) ==
    IF s # <<>> /\ s[Len(s)] = " " THEN TrimEnd(SubSeq(s, 1, Len(s) - 1)) ELSE s

Trim(s) == TrimEnd(TrimStart(s))

\* What the user may type into the input box, and what the API may answer.
Texts == {<<>>, <<" ">>, <<"a">>, <<" ", "b">>}
Replies == {<<"r">>}
\* What the user may type into the wallpaper URL field of the settings panel.
BgUrlInputs == {"", "bg.png"}

(***************************************************************************)
(* ChatInterface                                                           *)
(***************************************************************************)
\* The parent's onAddMessage: the message is appended to the character.
OnAddMessage(c, msg) == [c EXCEPT !.messages = Append(@, msg)]

\* The parent's onUpdateCharacter: the character is replaced.
OnUpdateCharacter(c, newC) == newC

\* interpolatePrompt of services/aiService, applied to a template.
InterpolatePrompt(template) == <<"interpolated", template>>

\* A tag that tests the presence of offlineConfig instead of its bgUrl.
UserMsgMode_ConfigOnly(c) == IF c.offlineConfig # UNDEF THEN "offline" ELSE "online"

\* mode of the user message
UserMsgMode(c) == IF Truthy(c.offlineConfig.bgUrl) THEN "offline" ELSE "online"

IsOfflineMode(c) == Truthy(c.offlineConfig.bgUrl)

SystemPromptTemplate(c) ==
    IF IsOfflineMode(c) THEN c.offlineConfig.systemPrompt ELSE c.systemPrompt

ApiMessage(m) ==
    [role |-> IF m.role = "model" THEN "assistant" ELSE m.role, content |-> m.content]

HistoryStart(c) == 0 - c.historyCount

History(c) ==
    LET past == Slice(c.messages, HistoryStart(c))
    IN  [i \in 1..Len(past) |-> ApiMessage(past[i])]

Conversation(c, userMsg) ==
    History(c) \o <<[role |-> "user", content |-> userMsg.content]>>

MessagesPayload(c, userMsg) ==
    <<[role |-> "system", content |-> InterpolatePrompt(SystemPromptTemplate(c))]>>
        \o Conversation(c, userMsg)

\* A handler that forgets setGlobalGenerating(true): the flag keeps its value.
GeneratingAfterSend_Unset == isGlobalGenerating

\* setGlobalGenerating(true) before the request is issued
GeneratingAfterSend == TRUE

\* A render of ChatInterface against the parent's state: the closures capture the
\* new props, and the effect on [character] resets the settings panel's copy.
Render(temp) ==
    /\ props' = [character |-> character', isGlobalGenerating |-> isGlobalGenerating']
    /\ tempCharConfig' = IF character' # props.character THEN character' ELSE temp

SetInputText(v) ==
    /\ ~props.isGlobalGenerating            \* the input is disabled while generating
    /\ inputText' = v
    /\ UNCHANGED <<character, isGlobalGenerating, showSettings, requests>>
    /\ Render(tempCharConfig)
    /\ UNCHANGED settingsVars

handleSendMessage ==
    LET c == props.character
        userMsg == [role |-> "user", content |-> inputText, mode |-> UserMsgMode(c)]
    IN  \/ /\ (Trim(inputText) = <<>> \/ props.isGlobalGenerating)
           /\ UNCHANGED vars
        \/ /\ ~(Trim(inputText) = <<>> \/ props.isGlobalGenerating)
           /\ Len(character.messages) + 2 <= MaxMessages
           /\ character' = OnAddMessage(character, userMsg)
           /\ inputText' = <<>>
           /\ isGlobalGenerating' = GeneratingAfterSend
           /\ requests' = Append(requests, [payload |-> MessagesPayload(c, userMsg),
                                            mode |-> userMsg.mode])
           /\ UNCHANGED showSettings
           /\ Render(tempCharConfig)
           /\ UNCHANGED settingsVars

RemoveAt(s, i) == SubSeq(s, 1, i - 1) \o SubSeq(s, i + 1, Len(s))

\* generateChatCompletion resolves: the rest of the try block, then finally.
ReplyArrives(i, content) ==
    /\ i \in 1..Len(requests)
    /\ character' = OnAddMessage(character, [role |-> "model", content |-> content,
                                             mode |-> requests[i].mode])
    /\ isGlobalGenerating' = FALSE
    /\ requests' = RemoveAt(requests, i)
    /\ UNCHANGED <<props, tempCharConfig, inputText, showSettings>>
    /\ UNCHANGED settingsVars

\* generateChatCompletion rejects: catch, then finally.
RequestFails(i) ==
    /\ i \in 1..Len(requests)
    /\ isGlobalGenerating' = FALSE
    /\ requests' = RemoveAt(requests, i)
    /\ UNCHANGED <<character, props, tempCharConfig, inputText, showSettings>>
    /\ UNCHANGED settingsVars

\* The render React schedules for state set outside an event handler.
Rerender ==
    /\ props # [character |-> character, isGlobalGenerating |-> isGlobalGenerating]
    /\ UNCHANGED <<character, isGlobalGenerating, inputText, showSettings, requests>>
    /\ Render(tempCharConfig)
    /\ UNCHANGED settingsVars

OpenSettings ==
    /\ ~showSettings
    /\ showSettings' = TRUE
    /\ UNCHANGED <<character, isGlobalGenerating, inputText, requests>>
    /\ Render(tempCharConfig)
    /\ UNCHANGED settingsVars

CloseSettings ==
    /\ showSettings
    /\ showSettings' = FALSE
    /\ UNCHANGED <<character, isGlobalGenerating, inputText, requests>>
    /\ Render(tempCharConfig)
    /\ UNCHANGED settingsVars

EditBgUrl(v) ==
    /\ showSettings
    /\ UNCHANGED <<character, isGlobalGenerating, inputText, showSettings, requests>>
    /\ Render([tempCharConfig EXCEPT !.offlineConfig.bgUrl = Str(v)])
    /\ UNCHANGED settingsVars

handleSaveSettings ==
    /\ showSettings
    /\ character' = OnUpdateCharacter(character, tempCharConfig)
    /\ showSettings' = FALSE
    /\ UNCHANGED <<isGlobalGenerating, inputText, requests>>
    /\ Render(tempCharConfig)
    /\ UNCHANGED settingsVars

InitialCharacters ==
    { [messages |-> <<>>,
       historyCount |-> h,
       systemPrompt |-> "DEFAULT_SYSTEM_PROMPT",
       offlineConfig |-> [systemPrompt |-> "DEFAULT_OFFLINE_PROMPT", bgUrl |-> b]]
      : h \in 0..MaxHistory, b \in {UNDEF, Str(""), Str("bg.png")} }

SettingsIdle ==
    /\ settings = NULL
    /\ characters = <<>>
    /\ localSettings = NULL
    /\ importMsg = ""
    /\ pendingImport = NULL
    /\ reading = EmptyBag
    /\ backupData = NULL
    /\ exportTimers = 0

Init ==
    /\ character \in InitialCharacters
    /\ isGlobalGenerating = FALSE
    /\ props = [character |-> character, isGlobalGenerating |-> FALSE]
    /\ tempCharConfig = character
    /\ inputText = <<>>
    /\ showSettings = FALSE
    /\ requests = <<>>
    /\ SettingsIdle

Next ==
    \/ \E v \in Texts : SetInputText(v)
    \/ handleSendMessage
    \/ \E i \in 1..Len(requests), content \in Replies : ReplyArrives(i, content)
    \/ \E i \in 1..Len(requests) : RequestFails(i)
    \/ Rerender
    \/ OpenSettings
    \/ CloseSettings
    \/ \E v \in BgUrlInputs : EditBgUrl(v)
    \/ handleSaveSettings

Spec == Init /\ [][Next]_vars

(***************************************************************************)
(* JavaScript objects: property read, a || b, a ?? b, spread, Array.isArray *)
(***************************************************************************)
EmptyObject == [k \in {} |-> NULL]

\* v.k for a non-null v: undefined when v has no such property.
Get(v, k) == IF v.t = "obj" /\ k \in DOMAIN v.o THEN v.o[k] ELSE UNDEF

\* a || b
OrElse(a, b) == IF Truthy(a) THEN a ELSE b

\* a ?? b
Nullish(a, b) == IF a.t \in {"null", "undefined"} THEN b ELSE a

IsArray(v) == v.t = "arr"

\* The own enumerable properties { ...v } copies: those of an object, the indices
\* of an array, none of null, undefined, a number or a boolean.  (A string spreads
\* into its characters; no modelled input puts a string where one is spread.)
Spread(v) ==
    CASE v.t = "obj" -> v.o
      [] v.t = "arr" ->
            [k \in {ToString(i - 1) : i \in DOMAIN v.a} |->
                v.a[CHOOSE i \in DOMAIN v.a : ToString(i - 1) = k]]
      [] v.t \in {"null", "undefined", "num", "bool"} -> EmptyObject

\* { ...a, ...b }: the properties of b override those of a.
Merge(a, b) ==
    [k \in (DOMAIN a) \cup (DOMAIN b) |-> IF k \in DOMAIN b THEN b[k] ELSE a[k]]

(***************************************************************************)
(* SettingsApp: constants                                                  *)
(***************************************************************************)
DEFAULT_FURNACE_CONFIG ==
    [autoEnabled |-> Bool(FALSE), autoThreshold |-> Num(20),
     autoScope |-> Num(30), manualScope |-> Num(30)]

DEFAULT_OFFLINE_CONFIG ==
    [systemPrompt |-> Str("DEFAULT_OFFLINE_PROMPT"), style |-> Str("novel-like"),
     wordCount |-> Num(150), bgUrl |-> Str(""), indicatorColor |-> Str("#f59e0b")]

\* messages kept per character and per scenario in a backup
BACKUP_MESSAGES == 50

\* The status lines setImportMsg is given.
MsgExported == "ok: exported"
MsgParsing == "parsing..."
MsgWaiting == "waiting for confirmation..."
MsgImported == "ok: imported"
MsgCancelled == "cancelled"
ErrEmpty == "error: file content is empty"
ErrNotJson == "error: file is not valid JSON"
ErrStructure == "error: invalid data structure"
ErrMissing == "error: no backup data found (settings/characters missing)"
ErrReadFailed == "error: file could not be read"
ErrApplyFailed == "error: applying the data failed"

(***************************************************************************)
(* SettingsApp: export                                                     *)
(***************************************************************************)
\* slice(50) in place of slice(-50): the first 50 messages are dropped.
ExportStart_Positive == BACKUP_MESSAGES

ExportStart == 0 - BACKUP_MESSAGES

\* list.slice(-50) of an array value
ExportMessages(list) == Arr(Slice(list.a, ExportStart))

ExportScenario(s) ==
    Obj(Merge(Spread(s),
              [messages |-> IF Truthy(Get(s, "messages"))
                            THEN ExportMessages(Get(s, "messages"))
                            ELSE Arr(<<>>)]))

ExportCharacter(c) ==
    Obj(Merge(Spread(c),
              [messages |-> IF IsArray(Get(c, "messages"))
                            THEN ExportMessages(Get(c, "messages"))
                            ELSE Arr(<<>>),
               scenarios |-> IF Get(c, "scenarios").t \in {"null", "undefined"}
                             THEN UNDEF
                             ELSE Arr([i \in DOMAIN Get(c, "scenarios").a |->
                                          ExportScenario(Get(c, "scenarios").a[i])])]))

BackupOf(s, chars) ==
    Obj([version |-> Num(1),
         type |-> Str("small_phone_backup"),
         settings |-> s,
         characters |-> Arr([i \in DOMAIN chars |-> ExportCharacter(chars[i])])])

handleExportBackup ==
    /\ pendingImport = NULL                 \* the modal covers the page
    /\ exportTimers < MaxExports
    /\ backupData' = BackupOf(settings, characters)
    /\ importMsg' = MsgExported
    /\ exportTimers' = exportTimers + 1
    /\ UNCHANGED <<settings, characters, localSettings, pendingImport, reading>>
    /\ UNCHANGED chatVars

\* setTimeout(() => setImportMsg(""), 3000)
ExportMsgTimeout ==
    /\ exportTimers > 0
    /\ exportTimers' = exportTimers - 1
    /\ importMsg' = ""
    /\ UNCHANGED <<settings, characters, localSettings, pendingImport, reading,
                   backupData>>
    /\ UNCHANGED chatVars

(***************************************************************************)
(* SettingsApp: import                                                     *)
(***************************************************************************)
\* What FileReader hands to onload: the empty string, text JSON.parse rejects, or
\* text that parses to the value v.
EmptyFile == [k |-> "empty"]
GarbageFile == [k |-> "garbage"]
JsonFile(v) == [k |-> "json", v |-> v]

\* A relaxed check that insists on both fields.
HasBackupData_Both(data) ==
    Truthy(Get(data, "settings")) /\ Truthy(Get(data, "characters"))

\* the negation of (!data.settings && !data.characters)
HasBackupData(data) ==
    Truthy(Get(data, "settings")) \/ Truthy(Get(data, "characters"))

\* The message of the error onload throws for the file, or "" when it throws none.
ParseError(file) ==
    IF file.k = "empty" THEN ErrEmpty
    ELSE IF file.k = "garbage" THEN ErrNotJson
    ELSE IF ~Truthy(file.v) \/ file.v.t \notin {"obj", "arr"} THEN ErrStructure
    ELSE IF ~HasBackupData(file.v) THEN ErrMissing
    ELSE ""

\* validBackup, with the settings the handler's closure captured
ValidBackup(data, s) ==
    Obj([version |-> OrElse(Get(data, "version"), Num(1)),
         type |-> Str("small_phone_backup"),
         settings |-> OrElse(Get(data, "settings"), s),
         characters |-> IF IsArray(Get(data, "characters"))
                        THEN Get(data, "characters")
                        ELSE Arr(<<>>)])

\* One element of sanitizedChars.
SanitizeChar(c) ==
    Obj(Merge(Spread(c),
        [furnaceConfig |->
            Obj(Merge(DEFAULT_FURNACE_CONFIG,
                      Spread(OrElse(Get(c, "furnaceConfig"), Obj(EmptyObject))))),
         offlineConfig |->
            Obj(Merge(DEFAULT_OFFLINE_CONFIG,
                      Spread(OrElse(Get(c, "offlineConfig"), Obj(EmptyObject))))),
         scenarios |-> IF IsArray(Get(c, "scenarios")) THEN Get(c, "scenarios") ELSE Arr(<<>>),
         diaries |-> IF IsArray(Get(c, "diaries")) THEN Get(c, "diaries") ELSE Arr(<<>>),
         memories |-> IF IsArray(Get(c, "memories")) THEN Get(c, "memories") ELSE Arr(<<>>),
         messages |-> IF IsArray(Get(c, "messages")) THEN Get(c, "messages") ELSE Arr(<<>>),
         useLocalPersona |-> Nullish(Get(c, "useLocalPersona"), Bool(FALSE)),
         realTimeMode |-> Nullish(Get(c, "realTimeMode"), Bool(FALSE)),
         showOS |-> Nullish(Get(c, "showOS"), Bool(FALSE))]))

\* Reading a property of null or undefined throws a TypeError.
ReadThrows(v) == v.t \in {"null", "undefined"}

\* An import that adds the imported characters to the present ones.
NewCharacters_Merged(old, sanitizedChars) == old \o sanitizedChars

\* onUpdateCharacters(sanitizedChars): the parent's list is replaced.
NewCharacters(old, sanitizedChars) == sanitizedChars

\* A confirmImport without its early return.
ConfirmGuard_Always == TRUE

\* the negation of confirmImport's early return
ConfirmGuard == Truthy(pendingImport)

handleImportFileSelect(file) ==
    /\ pendingImport = NULL                 \* the modal covers the page
    /\ BagCardinality(reading) < MaxReading
    /\ importMsg' = MsgParsing
    /\ pendingImport' = NULL
    /\ reading' = reading (+) SetToBag({[file |-> file, settings |-> settings]})
    /\ UNCHANGED <<settings, characters, localSettings, backupData, exportTimers>>
    /\ UNCHANGED chatVars

\* The change event of a file input whose dialog was dismissed: no file.
handleImportNoFile ==
    /\ pendingImport = NULL
    /\ UNCHANGED vars

ReaderOnLoad(r) ==
    /\ BagIn(r, reading)
    /\ LET err == ParseError(r.file)
       IN  IF err # ""
           THEN /\ importMsg' = err
                /\ UNCHANGED pendingImport
           ELSE /\ pendingImport' = ValidBackup(r.file.v, r.settings)
                /\ importMsg' = MsgWaiting
    /\ reading' = reading (-) SetToBag({r})
    /\ UNCHANGED <<settings, characters, localSettings, backupData, exportTimers>>
    /\ UNCHANGED chatVars

ReaderOnError(r) ==
    /\ BagIn(r, reading)
    /\ importMsg' = ErrReadFailed
    /\ reading' = reading (-) SetToBag({r})
    /\ UNCHANGED <<settings, characters, localSettings, pendingImport, backupData,
                   exportTimers>>
    /\ UNCHANGED chatVars

confirmImport ==
    IF ~ConfirmGuard
    THEN UNCHANGED vars
    ELSE LET p == pendingImport
             throwsAtSettings == ReadThrows(p)
             ps == Get(p, "settings")
             pc == Get(p, "characters")
             applySettings == ~throwsAtSettings /\ Truthy(ps)
             mapChars == ~throwsAtSettings /\ Truthy(pc) /\ IsArray(pc)
             throwsInMap == mapChars /\ \E i \in DOMAIN pc.a : ReadThrows(pc.a[i])
         IN  /\ settings' = IF applySettings THEN ps ELSE settings
             /\ localSettings' = IF applySettings THEN ps ELSE localSettings
             /\ IF throwsAtSettings \/ throwsInMap
                THEN /\ importMsg' = ErrApplyFailed
                     /\ UNCHANGED <<characters, pendingImport>>
                ELSE /\ characters' =
                          IF mapChars
                          THEN NewCharacters(characters,
                                             [i \in DOMAIN pc.a |-> SanitizeChar(pc.a[i])])
                          ELSE characters
                     /\ importMsg' = MsgImported
                     /\ pendingImport' = NULL
             /\ UNCHANGED <<reading, backupData, exportTimers>>
             /\ UNCHANGED chatVars

cancelImport ==
    /\ pendingImport # NULL                 \* the button is part of the modal
    /\ pendingImport' = NULL
    /\ importMsg' = MsgCancelled
    /\ UNCHANGED <<settings, characters, localSettings, reading, backupData,
                   exportTimers>>
    /\ UNCHANGED chatVars

\* onChange of the model select: setLocalSettings({...localSettings, model})
SetLocalModel(m) ==
    /\ pendingImport = NULL
    /\ localSettings' = Obj(Merge(Spread(localSettings), [model |-> Str(m)]))
    /\ UNCHANGED <<settings, characters, importMsg, pendingImport, reading, backupData,
                   exportTimers>>
    /\ UNCHANGED chatVars

\* updateSettings(localSettings); the isSaved badge is display only.
handleSave ==
    /\ pendingImport = NULL
    /\ settings' = localSettings
    /\ UNCHANGED <<characters, localSettings, importMsg, pendingImport, reading,
                   backupData, exportTimers>>
    /\ UNCHANGED chatVars

\* The chat component plays no part in the behaviours of SettingsApp.
ChatIdle ==
    /\ character = [messages |-> <<>>,
                    historyCount |-> 0,
                    systemPrompt |-> "DEFAULT_SYSTEM_PROMPT",
                    offlineConfig |-> [systemPrompt |-> "DEFAULT_OFFLINE_PROMPT",
                                       bgUrl |-> UNDEF]]
    /\ isGlobalGenerating = FALSE
    /\ props = [character |-> character, isGlobalGenerating |-> FALSE]
    /\ tempCharConfig = character
    /\ inputText = <<>>
    /\ showSettings = FALSE
    /\ requests = <<>>

\* The settings the application starts with, and what the form can change them to.
InitialSettings == Obj([model |-> Str("gpt-4o")])
ModelInputs == {"gemini-2.0-flash"}

\* A stored list of n messages; Num(i) stands for the i-th message.
MessageList(n) == Arr([i \in 1..n |-> Num(i)])

\* A live character with n messages and, by shape, no scenarios property, a
\* connected scenario (no messages of its own) or an isolated one with m messages.
LiveCharacter(n, shape, m) ==
    LET base == [id |-> Str("c1"), messages |-> MessageList(n)]
    IN  CASE shape = "none" -> Obj(base)
          [] shape = "connected" ->
                Obj(Merge(base, [scenarios |-> Arr(<<Obj([id |-> Str("s1")])>>)]))
          [] shape = "isolated" ->
                Obj(Merge(base, [scenarios |->
                        Arr(<<Obj([id |-> Str("s1"), messages |-> MessageList(m)])>>)]))

ExportInit ==
    /\ ChatIdle
    /\ settings = InitialSettings
    /\ localSettings = InitialSettings
    /\ characters \in
          { <<LiveCharacter(n, "none", 0)>> : n \in 0..MaxLive }
          \cup { <<LiveCharacter(n, "connected", 0)>> : n \in 0..MaxLive }
          \cup { <<LiveCharacter(n, "isolated", m)>> : n \in 0..MaxLive, m \in 0..MaxLive }
    /\ importMsg = ""
    /\ pendingImport = NULL
    /\ reading = EmptyBag
    /\ backupData = NULL
    /\ exportTimers = 0

ExportNext ==
    \/ handleExportBackup
    \/ ExportMsgTimeout

ExportSpec == ExportInit /\ [][ExportNext]_vars

\* The files the user may select.
FileSettings == Obj([model |-> Str("imported-model")])

CharMinimal == Obj([id |-> Str("minimal")])

CharFull ==
    Obj([id |-> Str("full"),
         furnaceConfig |-> Obj([autoEnabled |-> Bool(TRUE), autoThreshold |-> Num(5),
                                autoScope |-> Num(7), manualScope |-> Num(9)]),
         offlineConfig |-> Obj([systemPrompt |-> Str("prompt"), style |-> Str("terse"),
                                wordCount |-> Num(80), bgUrl |-> Str("bg.png")]),
         scenarios |-> Arr(<<>>), diaries |-> Arr(<<>>), memories |-> Arr(<<>>),
         messages |-> MessageList(2),
         useLocalPersona |-> Bool(TRUE), realTimeMode |-> Bool(TRUE),
         showOS |-> Bool(TRUE)])

CharPartial ==
    Obj([id |-> Str("partial"),
         furnaceConfig |-> Obj([autoThreshold |-> Num(5)]),
         offlineConfig |-> NULL,
         messages |-> Str("oops"),
         diaries |-> NULL,
         useLocalPersona |-> NULL,
         showOS |-> Bool(TRUE)])

CharNullFields ==
    Obj([id |-> Str("nulls"),
         furnaceConfig |-> Obj([autoThreshold |-> NULL]),
         offlineConfig |-> Obj([wordCount |-> NULL])])

Files ==
    { EmptyFile,
      GarbageFile,
      JsonFile(NULL),
      JsonFile(Num(5)),
      JsonFile(Arr(<<>>)),
      JsonFile(Obj([version |-> Num(2)])),
      JsonFile(Obj([settings |-> NULL, characters |-> Num(0)])),
      JsonFile(Obj([version |-> Num(2), settings |-> FileSettings])),
      JsonFile(Obj([characters |-> Str("x")])),
      JsonFile(Obj([settings |-> FileSettings,
                    characters |-> Arr(<<CharFull, CharPartial>>)])),
      JsonFile(Obj([characters |-> Arr(<<CharMinimal, NULL>>)])),
      JsonFile(Obj([characters |-> Arr(<<CharNullFields, Num(7)>>)])) }

\* The character the application holds before any import.
OldCharacter == SanitizeChar(Obj([id |-> Str("old"), messages |-> MessageList(1)]))

SettingsInit ==
    /\ ChatIdle
    /\ settings = InitialSettings
    /\ localSettings = InitialSettings
    /\ characters = <<OldCharacter>>
    /\ importMsg = ""
    /\ pendingImport = NULL
    /\ reading = EmptyBag
    /\ backupData = NULL
    /\ exportTimers = 0

SettingsNext ==
    \/ \E file \in Files : handleImportFileSelect(file)
    \/ handleImportNoFile
    \/ \E r \in BagToSet(reading) : ReaderOnLoad(r)
    \/ \E r \in BagToSet(reading) : ReaderOnError(r)
    \/ confirmImport
    \/ cancelImport
    \/ \E m \in ModelInputs : SetLocalModel(m)
    \/ handleSave

SettingsSpec == SettingsInit /\ [][SettingsNext]_vars

(***************************************************************************)
(* Properties of ChatInterface                                             *)
(***************************************************************************)
\* A step of handleSendMessage that issues a request, and the request it issues.
SendStep == Len(requests') = Len(requests) + 1
Issued == requests'[Len(requests')]
\* The past-message part of a payload: what lies between the system message and
\* the new user message.
PastPart(payload) == SubSeq(payload, 2, Len(payload) - 1)
\* The last k entries of a list, in order.
LastK(list, k) == [i \in 1..k |-> list[Len(list) - k + i]]

\* C1: at most one generateChatCompletion request is outstanding at any time, and
\* while one is outstanding the shared flag is true (in the parent and in the props
\* the handler's closure reads), so no further send is started.
C1_SequentialRequests ==
    /\ Len(requests) <= 1
    /\ requests # <<>> => (isGlobalGenerating /\ props.isGlobalGenerating)

\* C1 witness: a second exchange is under way: a request is outstanding after an
\* earlier one was answered.
C1_Witness ==
    /\ Len(requests) = 1
    /\ Len(character.messages) >= 3
    /\ \E i \in 1..Len(character.messages) : character.messages[i].role = "model"

\* C2: the past-message part of the payload built by handleSendMessage is exactly
\* the last min(historyCount, n) of the n stored messages, in their order (so none
\* when historyCount is 0).
C2_HistoryWindow ==
    [][SendStep =>
        LET n == Len(character.messages)
            k == Min(character.historyCount, n)
            last == LastK(character.messages, k)
        IN  PastPart(Issued.payload) = [i \in 1..k |-> ApiMessage(last[i])]]_vars

\* C3: the user message is tagged offline and the offline template is used exactly
\* when offlineConfig.bgUrl is a non-empty string, otherwise the tag is online and
\* the online template is used; no message ever carries the mode theater.
IsNonEmptyString(v) == v.t = "str" /\ v.s # ""

C3_ModeSelection ==
    [][/\ SendStep =>
            LET b == character.offlineConfig.bgUrl
                userMsg == character'.messages[Len(character'.messages)]
                system == Issued.payload[1]
            IN  /\ userMsg.role = "user"
                /\ system.role = "system"
                /\ IsNonEmptyString(b) =>
                      /\ userMsg.mode = "offline"
                      /\ system.content = InterpolatePrompt(character.offlineConfig.systemPrompt)
                /\ ~IsNonEmptyString(b) =>
                      /\ userMsg.mode = "online"
                      /\ system.content = InterpolatePrompt(character.systemPrompt)
       /\ \A i \in 1..Len(character'.messages) :
            character'.messages[i].mode \in {"online", "offline"}]_vars

\* C3 witness: an offline send is outstanding in a conversation that also holds an
\* online message (the wallpaper URL was set in between).
C3_Witness ==
    /\ \E i \in 1..Len(requests) : requests[i].mode = "offline"
    /\ \E i \in 1..Len(character.messages) : character.messages[i].mode = "online"
    /\ character.messages[Len(character.messages)].mode = "offline"

(***************************************************************************)
(* Properties of the backup export                                         *)
(***************************************************************************)
\* C4: in the backup every character's messages and every scenario's messages are
\* exactly the last min(50, n) entries of the live list of length n, in order; no
\* backup list is longer than 50 and a list of at most 50 is exported unchanged.
IsTail(exported, live) ==
    LET n == Len(live.a)
        k == Min(50, n)
    IN  /\ exported.t = "arr"
        /\ exported.a = LastK(live.a, k)
        /\ Len(exported.a) <= 50
        /\ n <= 50 => exported = live

C4_ExportTruncation ==
    backupData # NULL =>
        LET out == Get(backupData, "characters")
        IN  /\ Len(out.a) = Len(characters)
            /\ \A i \in DOMAIN characters :
                  /\ IsTail(Get(out.a[i], "messages"), Get(characters[i], "messages"))
                  /\ IsArray(Get(characters[i], "scenarios")) =>
                        \A j \in DOMAIN Get(characters[i], "scenarios").a :
                            LET live == Get(Get(characters[i], "scenarios").a[j], "messages")
                                exp == Get(Get(out.a[i], "scenarios").a[j], "messages")
                            IN  IsArray(live) => IsTail(exp, live)

\* C4 witness: a backup was produced of a character with more than 50 messages and
\* an isolated scenario with more than 50 messages.
C4_Witness ==
    /\ backupData # NULL
    /\ \E i \in DOMAIN characters :
          /\ Len(Get(characters[i], "messages").a) > 50
          /\ IsArray(Get(characters[i], "scenarios"))
          /\ \E j \in DOMAIN Get(characters[i], "scenarios").a :
                /\ IsArray(Get(Get(characters[i], "scenarios").a[j], "messages"))
                /\ Len(Get(Get(characters[i], "scenarios").a[j], "messages").a) > 50

(***************************************************************************)
(* Properties of the backup import                                         *)
(***************************************************************************)
\* The steps of the import, told apart by what they do to the state.
\* onload of the read r in flight (onerror leaves ErrReadFailed instead):
LoadStepOf(r) ==
    /\ BagIn(r, reading)
    /\ reading' = reading (-) SetToBag({r})
    /\ importMsg' # ErrReadFailed
\* handleImportFileSelect with a file:
SelectStep == BagCardinality(reading') = BagCardinality(reading) + 1
\* confirmImport past its early return, completed or thrown:
ConfirmCompleted ==
    /\ pendingImport # NULL
    /\ pendingImport' = NULL
    /\ importMsg' = MsgImported
ConfirmThrew ==
    /\ pendingImport # NULL
    /\ pendingImport' = pendingImport
    /\ reading' = reading
    /\ importMsg' = ErrApplyFailed
    /\ importMsg # ErrApplyFailed \/ settings' # settings

ParseErrors == {ErrEmpty, ErrNotJson, ErrStructure, ErrMissing}

\* The character list of a file: its characters array, or none.
FileCharacters(file) ==
    IF file.k = "json" /\ IsArray(Get(file.v, "characters"))
    THEN Get(file.v, "characters").a
    ELSE <<>>

HasNullEntry(list) == \E i \in DOMAIN list : list[i] = NULL

\* C5 as stated: after confirmImport has run with a pending backup the character
\* list is that of the imported file, entry by entry, and holds no character that
\* was there only before the import.
C5_ImportOverwrites ==
    [][(ConfirmCompleted \/ ConfirmThrew) =>
        LET imported == Get(pendingImport, "characters").a
        IN  /\ Len(characters') = Len(imported)
            /\ \A i \in DOMAIN characters' :
                  Get(characters'[i], "id") = Get(imported[i], "id")]_vars

\* C5 as amended: a file accepted for import makes its characters array (or the
\* empty list, when it has none) the pending list; confirmImport with a pending
\* list that has no null entry replaces the character list by the sanitized
\* pending list (the empty list when that is empty); with a null entry it throws,
\* and leaves the character list and the pending import as they were.
C5_ImportOverwritesAmended ==
    [][/\ \A r \in BagToSet(reading) :
            (LoadStepOf(r) /\ importMsg' = MsgWaiting) =>
                Get(pendingImport', "characters") = Arr(FileCharacters(r.file))
       /\ (ConfirmCompleted \/ ConfirmThrew) =>
            LET imported == Get(pendingImport, "characters").a
            IN  IF HasNullEntry(imported)
                THEN /\ characters' = characters
                     /\ pendingImport' = pendingImport
                ELSE /\ characters' = [i \in DOMAIN imported |-> SanitizeChar(imported[i])]
                     /\ \A i \in DOMAIN characters' :
                           Get(characters'[i], "id") = Get(imported[i], "id")
                     /\ imported = <<>> => characters' = <<>>]_vars

\* C5 witness: an import was confirmed and replaced the old character by two
\* imported ones.
C5_Witness ==
    /\ importMsg = MsgImported
    /\ Len(characters) = 2
    /\ \A i \in DOMAIN characters : Get(characters[i], "id") # Str("old")

\* C6: settings and characters change on behalf of an import only in a step of
\* confirmImport with pendingImport non-null (the only other change of the settings
\* is handleSave's); selecting, reading and parsing a file change neither;
\* cancelImport sets pendingImport to null and changes neither; with pendingImport
\* null, confirmImport does nothing.
C6_ImportNeedsConfirmation ==
    [][/\ characters' # characters => ConfirmCompleted
       /\ settings' # settings =>
            \/ /\ ConfirmCompleted \/ ConfirmThrew
               /\ settings' = Get(pendingImport, "settings")
            \/ /\ pendingImport = NULL
               /\ settings' = localSettings
               /\ importMsg' = importMsg
       /\ reading' # reading => UNCHANGED <<settings, characters>>
       /\ (pendingImport # NULL /\ importMsg' = MsgCancelled) =>
            /\ pendingImport' = NULL
            /\ UNCHANGED <<settings, characters>>
       /\ pendingImport = NULL =>
            /\ characters' = characters
            /\ importMsg' # importMsg => importMsg' \notin {MsgImported, ErrApplyFailed}]_vars

\* C6 witness: one import was confirmed and applied, and a later one cancelled.
C6_Witness ==
    /\ characters # <<OldCharacter>>
    /\ settings = FileSettings
    /\ importMsg = MsgCancelled
    /\ pendingImport = NULL

\* C7 as stated: a file that is empty, not JSON, not an object or has neither a
\* settings nor a characters field is rejected, with pendingImport still null, an
\* error in importMsg and settings and characters unchanged; a file that has at
\* least one of the two fields becomes the pending import.
HasField(file, k) == file.k = "json" /\ file.v.t = "obj" /\ k \in DOMAIN file.v.o

C7_ImportValidation ==
    [][\A r \in BagToSet(reading) : LoadStepOf(r) =>
        LET file == r.file
        IN  IF HasField(file, "settings") \/ HasField(file, "characters")
            THEN /\ pendingImport' # NULL
                 /\ importMsg' = MsgWaiting
            ELSE /\ pendingImport' = NULL
                 /\ importMsg' \in ParseErrors
                 /\ UNCHANGED <<settings, characters>>]_vars

\* C7 as amended: selecting a file sets pendingImport to null; a file is accepted
\* exactly when it parses to an object in which settings or characters is present
\* with a truthy value (not null, false, 0 or ""), and then becomes the pending
\* import; every other file is rejected: importMsg is set to an error message and
\* pendingImport is left as it was (null, unless another file's read completed
\* since the selection); settings and characters are unchanged either way.
FalsyValues == {UNDEF, NULL, Bool(FALSE), Num(0), Str("")}

HasTruthyField(file, k) == HasField(file, k) /\ file.v.o[k] \notin FalsyValues

C7_ImportValidationAmended ==
    [][/\ SelectStep =>
            /\ pendingImport' = NULL
            /\ importMsg' = MsgParsing
       /\ \A r \in BagToSet(reading) : LoadStepOf(r) =>
            LET file == r.file
            IN  /\ IF HasTruthyField(file, "settings") \/ HasTruthyField(file, "characters")
                   THEN /\ pendingImport' # NULL
                        /\ Get(pendingImport', "settings") =
                              IF HasTruthyField(file, "settings")
                              THEN file.v.o.settings
                              ELSE r.settings
                        /\ Get(pendingImport', "characters") = Arr(FileCharacters(file))
                        /\ importMsg' = MsgWaiting
                   ELSE /\ pendingImport' = pendingImport
                        /\ importMsg' \in ParseErrors
                /\ UNCHANGED <<settings, characters>>]_vars

\* C7 witness: a file was rejected for lack of backup data while an import read
\* earlier is pending.
C7_Witness ==
    /\ importMsg = ErrMissing
    /\ pendingImport # NULL

\* C8: every character confirmImport passes on has defined, non-null autoEnabled,
\* autoThreshold, autoScope and manualScope in furnaceConfig (the default where the
\* file omits the field, the file's value otherwise), defined, non-null
\* systemPrompt, style and wordCount in offlineConfig, arrays in scenarios,
\* diaries, memories and messages, and defined useLocalPersona, realTimeMode and
\* showOS.
IsPresent(v) == v # UNDEF /\ v # NULL

C8_SanitizedFields ==
    [][ConfirmCompleted =>
        \A i \in DOMAIN characters' :
            LET out == characters'[i]
                src == Get(pendingImport, "characters").a[i]
                given == Get(src, "furnaceConfig")
            IN  /\ \A f \in {"autoEnabled", "autoThreshold", "autoScope", "manualScope"} :
                      /\ IsPresent(Get(Get(out, "furnaceConfig"), f))
                      /\ Get(Get(out, "furnaceConfig"), f) =
                            IF Get(given, f) = UNDEF
                            THEN DEFAULT_FURNACE_CONFIG[f]
                            ELSE Get(given, f)
                /\ \A f \in {"systemPrompt", "style", "wordCount"} :
                      IsPresent(Get(Get(out, "offlineConfig"), f))
                /\ \A f \in {"scenarios", "diaries", "memories", "messages"} :
                      IsArray(Get(out, f))
                /\ \A f \in {"useLocalPersona", "realTimeMode", "showOS"} :
                      Get(out, f) # UNDEF]_vars

====
